---- MODULE Spec2Model ----
(***************************************************************************)
(* Model of the yf-import quote gateway (the Cloudflare Worker of          *)
(* src/index.ts, latest revision): request routing, the exchange-prefix    *)
(* rewrite probe, the edge cache lookup, the upstream quote and search     *)
(* calls, and the detached cache write.                                    *)
(*                                                                         *)
(* Texts the program parses (path names, symbols, query strings,           *)
(* environment values, URLs) are sequences of one-character strings.       *)
(* Texts it only emits (bodies, Content-Type, Cache-Control) are strings.  *)
(* An optional value is a sequence of length 0 or 1.                       *)
(***************************************************************************)
EXTENDS Integers, Sequences, FiniteSets, TLC

VARIABLES cache, pending, reqs

vars == <<cache, pending, reqs>>

-----------------------------------------------------------------------------
(* Optional values.                                                        *)

None == <<>>

Some(x) == <<x>>

-----------------------------------------------------------------------------
(* Character and string helpers (the JavaScript built-ins the code uses).  *)

UpperAlpha ==
    <<"A","B","C","D","E","F","G","H","I","J","K","L","M",
      "N","O","P","Q","R","S","T","U","V","W","X","Y","Z">>

LowerAlpha ==
    <<"a","b","c","d","e","f","g","h","i","j","k","l","m",
      "n","o","p","q","r","s","t","u","v","w","x","y","z">>

Digits == <<"0","1","2","3","4","5","6","7","8","9">>

IsDigit(c) == \E i \in 1..10 : Digits[i] = c

DigitValue(c) == (CHOOSE i \in 1..10 : Digits[i] = c) - 1

IsLetter(c) == \E i \in 1..26 : UpperAlpha[i] = c \/ LowerAlpha[i] = c

ToUpperChar(c) ==
    IF \E i \in 1..26 : LowerAlpha[i] = c
    THEN UpperAlpha[CHOOSE i \in 1..26 : LowerAlpha[i] = c]
    ELSE c

ToLowerChar(c) ==
    IF \E i \in 1..26 : UpperAlpha[i] = c
    THEN LowerAlpha[CHOOSE i \in 1..26 : UpperAlpha[i] = c]
    ELSE c

\* String.prototype.toUpperCase
ToUpperCase(s) == [i \in 1..Len(s) |-> ToUpperChar(s[i])]

ToLowerCase(s) == [i \in 1..Len(s) |-> ToLowerChar(s[i])]

\* String.prototype.includes for a one-character needle
Includes(s, c) == \E i \in 1..Len(s) : s[i] = c

\* String.prototype.indexOf for a one-character needle, 1-based; 0 when absent
IndexOf(s, c) ==
    IF Includes(s, c)
    THEN CHOOSE i \in 1..Len(s) : s[i] = c /\ \A j \in 1..(i - 1) : s[j] # c
    ELSE 0

\* String.prototype.split for a one-character separator
RECURSIVE Split(_, _)
Split(s, c) ==
    IF ~Includes(s, c)
    THEN <<s>>
    ELSE <<SubSeq(s, 1, IndexOf(s, c) - 1)>>
            \o Split(SubSeq(s, IndexOf(s, c) + 1, Len(s)), c)

\* The text of a character sequence, as a string
RECURSIVE Str(_)
Str(s) == IF s = <<>> THEN "" ELSE Head(s) \o Str(Tail(s))

\* Array.prototype.join(" ") over texts
RECURSIVE JoinSpace(_)
JoinSpace(ss) ==
    IF ss = <<>> THEN ""
    ELSE IF Len(ss) = 1 THEN Str(ss[1])
    ELSE Str(ss[1]) \o " " \o JoinSpace(Tail(ss))

\* Array.prototype.slice(0, n)
Slice0(ss, n) == SubSeq(ss, 1, IF Len(ss) < n THEN Len(ss) ELSE n)

\* Decimal digits of a natural number, as a string
RECURSIVE NatToString(_)
NatToString(n) ==
    IF n < 10 THEN Digits[n + 1]
    ELSE NatToString(n \div 10) \o Digits[(n % 10) + 1]

\* The characters encodeURIComponent escapes, among those the model uses
EscapeTable ==
    (":" :> <<"%","3","A">>) @@ ("%" :> <<"%","2","5">>) @@
    ("/" :> <<"%","2","F">>) @@ ("?" :> <<"%","3","F">>) @@
    ("=" :> <<"%","3","D">>) @@ (" " :> <<"%","2","0">>)

RECURSIVE EncodeURIComponent(_)
EncodeURIComponent(s) ==
    IF s = <<>> THEN <<>>
    ELSE (IF Head(s) \in DOMAIN EscapeTable THEN EscapeTable[Head(s)] ELSE <<Head(s)>>)
            \o EncodeURIComponent(Tail(s))

RECURSIVE TrimStart(_)
TrimStart(s) ==
    IF s # <<>> /\ Head(s) = " " THEN TrimStart(Tail(s)) ELSE s

RECURSIVE TrimEnd(_)
TrimEnd(s) ==
    IF s # <<>> /\ s[Len(s)] = " " THEN TrimEnd(SubSeq(s, 1, Len(s) - 1)) ELSE s

\* The longest prefix of s made of decimal digits
RECURSIVE DigitPrefix(_)
DigitPrefix(s) ==
    IF s # <<>> /\ IsDigit(Head(s)) THEN <<Head(s)>> \o DigitPrefix(Tail(s)) ELSE <<>>

RECURSIVE DigitsToNat(_)
DigitsToNat(ds) ==
    IF ds = <<>> THEN 0
    ELSE 10 * DigitsToNat(SubSeq(ds, 1, Len(ds) - 1)) + DigitValue(ds[Len(ds)])

\* parseInt(s, 10): None is NaN
ParseInt(s) ==
    LET t    == TrimStart(s)
        neg  == t # <<>> /\ Head(t) = "-"
        body == IF t # <<>> /\ Head(t) \in {"-", "+"} THEN Tail(t) ELSE t
        ds   == DigitPrefix(body)
    IN  IF ds = <<>> THEN None
        ELSE Some(IF neg THEN 0 - DigitsToNat(ds) ELSE DigitsToNat(ds))

\* Number.prototype.toString of the result of parseInt, as `${n}` prints it
IntToString(m) ==
    IF m = None THEN "NaN"
    ELSE IF m[1] < 0 THEN "-" \o NatToString(0 - m[1])
    ELSE NatToString(m[1])

-----------------------------------------------------------------------------
(* JSON values of the provider's answers.  A number is held in hundredths: *)
(* JNum(15025) is the JSON number 150.25.                                  *)

JNull == [t |-> "null"]

JUndefined == [t |-> "undefined"]

JNum(n) == [t |-> "number", v |-> n]

JStr(s) == [t |-> "string", v |-> s]

JArr(a) == [t |-> "array", v |-> a]

JObj(f) == [t |-> "object", v |-> f]

IsNullish(x) == x.t \in {"null", "undefined"}

\* o?.k
Get(o, k) ==
    IF o.t = "object" /\ k \in DOMAIN o.v THEN o.v[k] ELSE JUndefined

\* o?.[i], i counted from 0
At(o, i) ==
    IF o.t = "array" /\ Len(o.v) > i THEN o.v[i + 1] ELSE JUndefined

\* x ?? d
Nullish(x, d) == IF IsNullish(x) THEN d ELSE x

\* Number.prototype.toString for a number held in hundredths: the shortest
\* decimal text, without padding zeros
PriceToString(n) ==
    LET whole == n \div 100
        frac  == n % 100
    IN  IF frac = 0 THEN NatToString(whole)
        ELSE IF frac % 10 = 0 THEN NatToString(whole) \o "." \o Digits[(frac \div 10) + 1]
        ELSE NatToString(whole) \o "." \o Digits[(frac \div 10) + 1] \o Digits[(frac % 10) + 1]

\* price.toString() for the value getYahooQuote returned
ValueToString(v) == IF v.t = "number" THEN PriceToString(v.v) ELSE Str(v.v)

-----------------------------------------------------------------------------
(* URLs.                                                                   *)

SchemeChars(s) ==
    /\ s # <<>>
    /\ IsLetter(s[1])
    /\ \A i \in 1..Len(s) : IsLetter(s[i]) \/ IsDigit(s[i]) \/ s[i] \in {"+", "-", "."}

SpecialSchemes == {<<"h","t","t","p">>, <<"h","t","t","p","s">>, <<"f","t","p">>}

RECURSIVE StripSlashes(_)
StripSlashes(s) ==
    IF s # <<>> /\ Head(s) \in {"/", "\\"} THEN StripSlashes(Tail(s)) ELSE s

\* The longest prefix of s free of "/", "?" and "#"
RECURSIVE AuthorityOf(_)
AuthorityOf(s) ==
    IF s = <<>> \/ Head(s) \in {"/", "?", "#"} THEN <<>>
    ELSE <<Head(s)>> \o AuthorityOf(Tail(s))

\* new URL(s) without a base: None when it throws, else the protocol and the
\* serialised href
ParseURL(s) ==
    LET t == TrimEnd(TrimStart(s))
        i == IndexOf(t, ":")
    IN  IF i <= 1 \/ ~SchemeChars(SubSeq(t, 1, i - 1)) THEN None
        ELSE LET scheme == ToLowerCase(SubSeq(t, 1, i - 1))
                 rest   == SubSeq(t, i + 1, Len(t))
             IN  IF scheme \in SpecialSchemes
                 THEN LET r    == StripSlashes(rest)
                          host == AuthorityOf(r)
                          tail == SubSeq(r, Len(host) + 1, Len(r))
                      IN  IF host = <<>> THEN None
                          ELSE Some([protocol |-> scheme \o <<":">>,
                                     href |-> scheme \o <<":", "/", "/">> \o ToLowerCase(host)
                                              \o (IF tail = <<>> \/ Head(tail) # "/"
                                                  THEN <<"/">> ELSE <<>>)
                                              \o tail])
                 ELSE Some([protocol |-> scheme \o <<":">>,
                            href |-> scheme \o <<":">> \o rest])

-----------------------------------------------------------------------------
(* Responses.                                                              *)

\* new Response(body, {status, headers})
NewResponse(body, status, headers) ==
    [status |-> status, body |-> body, headers |-> headers]

TextPlain == ("Content-Type" :> "text/plain")

\* Response.redirect(url, status): the Location is the serialised parsed URL
ResponseRedirect(url, status) ==
    [status |-> status, body |-> "", headers |-> ("Location" :> ParseURL(url)[1].href)]

-----------------------------------------------------------------------------
(* The answers of the upstream provider, as fetch delivers them.           *)

\* fetch resolved: a status and, when the body is JSON, its value
HttpResponse(status, json) == [kind |-> "response", status |-> status, json |-> json]

\* fetch rejected with an Error
Rejected(message) == [kind |-> "reject", message |-> message]

\* response.ok
Ok(out) == out.status >= 200 /\ out.status <= 299

Return(v) == [threw |-> FALSE, value |-> v]

Throw(m) == [threw |-> TRUE, message |-> m]

SyntaxErrorMessage == "Unexpected token < in JSON"

TypeErrorMessage == "quotes.map is not a function"

GetYahooQuote_NoNotFoundCheck(out) ==
    IF out.kind = "reject" THEN Throw(out.message)
    ELSE IF ~Ok(out) THEN Throw("Yahoo Finance API error: " \o NatToString(out.status))
    ELSE IF out.json = None THEN Throw(SyntaxErrorMessage)
    ELSE Return(Nullish(Get(Get(At(Get(Get(out.json[1], "chart"), "result"), 0), "meta"),
                            "regularMarketPrice"), JNull))

\* getYahooQuote, given what fetch delivered
GetYahooQuote(out) ==
    IF out.kind = "reject" THEN Throw(out.message)
    ELSE IF out.status = 404 THEN Return(JNull)
    ELSE IF ~Ok(out) THEN Throw("Yahoo Finance API error: " \o NatToString(out.status))
    ELSE IF out.json = None THEN Throw(SyntaxErrorMessage)
    ELSE Return(Nullish(Get(Get(At(Get(Get(out.json[1], "chart"), "result"), 0), "meta"),
                            "regularMarketPrice"), JNull))

\* quotes.map(q => q?.symbol).filter(s => typeof s === "string")
RECURSIVE StringSymbols(_)
StringSymbols(qs) ==
    IF qs = <<>> THEN <<>>
    ELSE (IF Get(Head(qs), "symbol").t = "string"
          THEN <<Get(Head(qs), "symbol").v>> ELSE <<>>) \o StringSymbols(Tail(qs))

SearchYahooSymbol_SliceFirst(out) ==
    IF out.kind = "reject" THEN Throw(out.message)
    ELSE IF ~Ok(out) THEN Return(<<>>)
    ELSE IF out.json = None THEN Throw(SyntaxErrorMessage)
    ELSE LET quotes == Nullish(Get(out.json[1], "quotes"), JArr(<<>>))
         IN  IF quotes.t # "array" THEN Throw(TypeErrorMessage)
             ELSE Return(StringSymbols(Slice0(quotes.v, 3)))

\* searchYahooSymbol, given what fetch delivered
SearchYahooSymbol(out) ==
    IF out.kind = "reject" THEN Throw(out.message)
    ELSE IF ~Ok(out) THEN Return(<<>>)
    ELSE IF out.json = None THEN Throw(SyntaxErrorMessage)
    ELSE LET quotes == Nullish(Get(out.json[1], "quotes"), JArr(<<>>))
         IN  IF quotes.t # "array" THEN Throw(TypeErrorMessage)
             ELSE Return(Slice0(StringSymbols(quotes.v), 3))

-----------------------------------------------------------------------------
(* Routing and the pure parts of the handler.                              *)

QuotesPrefix == <<"/","a","p","i","/","q","u","o","t","e","s","/">>

MatchQuote_Nested(pathname) ==
    LET n == Len(QuotesPrefix)
    IN  IF /\ Len(pathname) > n
           /\ SubSeq(pathname, 1, n) = QuotesPrefix
        THEN Some(SubSeq(pathname, n + 1, Len(pathname)))
        ELSE None

\* url.pathname.match(/^\/api\/quotes\/([^/]+)$/): the captured symbol, or None
MatchQuote(pathname) ==
    LET n == Len(QuotesPrefix)
    IN  IF /\ Len(pathname) > n
           /\ SubSeq(pathname, 1, n) = QuotesPrefix
           /\ ~Includes(SubSeq(pathname, n + 1, Len(pathname)), "/")
        THEN Some(SubSeq(pathname, n + 1, Len(pathname)))
        ELSE None

IsQuoteRequest_AnyMethod(q) == MatchQuote(q.url.pathname) # None

\* match && request.method === "GET"
IsQuoteRequest(q) == MatchQuote(q.url.pathname) # None /\ q.method = "GET"

SymbolOf(q) == MatchQuote(q.url.pathname)[1]

ExchangePrefix == <<"B","I","T">>

ExchangeSuffix == <<".","M","I">>

RewriteCandidate_CaseSensitive(symbol) ==
    IF ~Includes(symbol, ":") THEN None
    ELSE LET parts  == Split(symbol, ":")
             prefix == parts[1]
             base   == parts[2]
         IN  IF prefix # ExchangePrefix \/ base = <<>> THEN None
             ELSE Some(base \o ExchangeSuffix)

RewriteCandidate_AnyPrefix(symbol) ==
    IF ~Includes(symbol, ":") THEN None
    ELSE LET parts  == Split(symbol, ":")
             base   == parts[2]
         IN  IF base = <<>> THEN None
             ELSE Some(base \o ExchangeSuffix)

\* tryRewriteExchangeSymbol up to its probe: the candidate to probe, or None
RewriteCandidate(symbol) ==
    IF ~Includes(symbol, ":") THEN None
    ELSE LET parts  == Split(symbol, ":")
             prefix == parts[1]
             base   == parts[2]
         IN  IF ToUpperCase(prefix) # ExchangePrefix \/ base = <<>> THEN None
             ELSE Some(base \o ExchangeSuffix)

RewriteRedirect_ToItself(url, candidate) ==
    ResponseRedirect(url.origin \o url.pathname, 301)

\* The redirect tryRewriteExchangeSymbol answers when the probe found a price
RewriteRedirect(url, candidate) ==
    ResponseRedirect(url.origin \o QuotesPrefix \o EncodeURIComponent(candidate), 301)

CacheKey_IgnoreCase(url) == url.origin \o ToUpperCase(url.pathname)

CacheKey_WithQuery(url) == url.origin \o url.pathname \o url.search

\* new Request(`${url.origin}${url.pathname}`, request): the URL of the cache key
CacheKey(url) == url.origin \o url.pathname

\* env.X || d
EnvOr(env, name, d) ==
    IF name \in DOMAIN env /\ env[name] # <<>> THEN env[name] ELSE d

DefaultTTL == <<"3","0","0">>

CacheTTL_DefaultOnly(env) == ParseInt(DefaultTTL)

\* parseInt(env.CACHE_TTL || "300", 10)
CacheTTL(env) == ParseInt(EnvOr(env, "CACHE_TTL", DefaultTTL))

IsValidUrl_AnyScheme(s) == ParseURL(s) # None

\* isValidUrl
IsValidUrl(s) ==
    /\ ParseURL(s) # None
    /\ ParseURL(s)[1].protocol \in {<<"h","t","t","p",":">>, <<"h","t","t","p","s",":">>}

\* The condition of the root-path redirect
RootRedirectApplies(q) ==
    /\ q.url.pathname = <<"/">>
    /\ q.method = "GET"
    /\ EnvOr(q.env, "ROOT_REDIRECT_URL", <<>>) # <<>>
    /\ IsValidUrl(q.env["ROOT_REDIRECT_URL"])

NotFoundResponse == NewResponse("Not Found", 404, TextPlain)

PriceNotAvailable_Bare == NewResponse("Price not available", 404, <<>>)

PriceNotAvailable == NewResponse("Price not available", 404, TextPlain)

SimilarResponse_Cacheable(suggestions) ==
    NewResponse("Symbol not found - similar: " \o JoinSpace(suggestions), 200,
                TextPlain @@ ("Cache-Control" :> "public, max-age=300"))

SimilarResponse(suggestions) ==
    NewResponse("Symbol not found - similar: " \o JoinSpace(suggestions), 200, TextPlain)

ErrorResponse_Generic(message) ==
    NewResponse("Error fetching quote", 500, TextPlain)

ErrorResponse(message) ==
    NewResponse("Error fetching quote: " \o message, 500, TextPlain)

PriceResponse(price, cacheTTL) ==
    NewResponse(ValueToString(price), 200,
                TextPlain @@ ("Cache-Control" :> ("public, max-age=" \o IntToString(cacheTTL))))

-----------------------------------------------------------------------------
(* State.                                                                  *)
(*  cache   : the edge cache, a function from cache-key URL to the entry   *)
(*            stored under it.  An entry holds the stored Response (resp)  *)
(*            and, as history, the symbol, query string and price of the   *)
(*            request that stored it.                                      *)
(*  pending : the cache writes handed to ctx.waitUntil and not yet done.   *)
(*  reqs    : per request slot, the invocation of fetch running in it:     *)
(*            its inputs, its position (pc), the upstream calls it made,   *)
(*            the cache keys it looked up, the entry it found, the writes  *)
(*            it handed to waitUntil and its response.                     *)

MaxInFlight == 2

MaxPending == 2

Slots == 1..MaxInFlight

NoUrl == [origin |-> <<>>, pathname |-> <<>>, search |-> <<>>]

Idle ==
    [pc |-> "idle", method |-> "", url |-> NoUrl, env |-> <<>>, calls |-> <<>>,
     lookups |-> <<>>, hit |-> None, puts |-> <<>>, response |-> None]

\* The invocation fetch(request, env, ctx) at its first statement
Fresh(i) ==
    [pc |-> "start", method |-> i.method, url |-> i.url, env |-> i.env, calls |-> <<>>,
     lookups |-> <<>>, hit |-> None, puts |-> <<>>, response |-> None]

Call(fn, arg, out) == [fn |-> fn, arg |-> arg, out |-> out]

Finish(q, response) == [q EXCEPT !.pc = "done", !.response = Some(response)]

Init ==
    /\ cache = <<>>
    /\ pending = {}
    /\ reqs = [r \in Slots |-> Idle]

-----------------------------------------------------------------------------
(* Actions: one per step of the handler between two awaits.                *)

\* A request arrives in a free slot
Receive(r, inputs) ==
    /\ reqs[r].pc \in {"idle", "done"}
    /\ Cardinality(pending) < MaxPending
    /\ \E i \in inputs : reqs' = [reqs EXCEPT ![r] = Fresh(i)]
    /\ UNCHANGED <<cache, pending>>

\* Neither the quote route nor the root redirect: 404 "Not Found"
NotFound(r) ==
    /\ reqs[r].pc = "start"
    /\ ~IsQuoteRequest(reqs[r])
    /\ ~RootRedirectApplies(reqs[r])
    /\ reqs' = [reqs EXCEPT ![r] = Finish(@, NotFoundResponse)]
    /\ UNCHANGED <<cache, pending>>

\* GET / with a valid ROOT_REDIRECT_URL
RootRedirect(r) ==
    /\ reqs[r].pc = "start"
    /\ ~IsQuoteRequest(reqs[r])
    /\ RootRedirectApplies(reqs[r])
    /\ reqs' = [reqs EXCEPT
                  ![r] = Finish(@, ResponseRedirect(@.env["ROOT_REDIRECT_URL"], 301))]
    /\ UNCHANGED <<cache, pending>>

\* tryRewriteExchangeSymbol returns null without a probe
RewriteSkip(r) ==
    /\ reqs[r].pc = "start"
    /\ IsQuoteRequest(reqs[r])
    /\ RewriteCandidate(SymbolOf(reqs[r])) = None
    /\ reqs' = [reqs EXCEPT ![r].pc = "lookup"]
    /\ UNCHANGED <<cache, pending>>

ProbeResult_Unguarded(q, candidate, res) ==
    IF res.threw THEN Finish(q, ErrorResponse(res.message))
    ELSE IF res.value # JNull THEN Finish(q, RewriteRedirect(q.url, candidate))
    ELSE [q EXCEPT !.pc = "lookup"]

\* What tryRewriteExchangeSymbol and its caller do with the probe's result
ProbeResult(q, candidate, res) ==
    IF ~res.threw /\ res.value # JNull
    THEN Finish(q, RewriteRedirect(q.url, candidate))
    ELSE [q EXCEPT !.pc = "lookup"]

RewriteProbe_Stores(r, outcomes) ==
    /\ reqs[r].pc = "start"
    /\ IsQuoteRequest(reqs[r])
    /\ RewriteCandidate(SymbolOf(reqs[r])) # None
    /\ \E out \in outcomes :
          LET candidate == RewriteCandidate(SymbolOf(reqs[r]))[1]
              res == GetYahooQuote(out)
              q == [reqs[r] EXCEPT !.calls = Append(@, Call("quote", candidate, out))]
          IN  /\ reqs' = [reqs EXCEPT ![r] = ProbeResult(q, candidate, res)]
              /\ pending' =
                    IF ~res.threw /\ res.value # JNull
                    THEN pending \cup
                           {[key |-> q.url.origin \o QuotesPrefix \o candidate,
                             entry |-> [resp |-> PriceResponse(res.value, CacheTTL(q.env)),
                                        symbol |-> candidate, search |-> q.url.search,
                                        price |-> res.value]]}
                    ELSE pending
    /\ UNCHANGED cache

\* tryRewriteExchangeSymbol probes the provider for BASE.MI
RewriteProbe(r, outcomes) ==
    /\ reqs[r].pc = "start"
    /\ IsQuoteRequest(reqs[r])
    /\ RewriteCandidate(SymbolOf(reqs[r])) # None
    /\ \E out \in outcomes :
          LET candidate == RewriteCandidate(SymbolOf(reqs[r]))[1]
              q == [reqs[r] EXCEPT !.calls = Append(@, Call("quote", candidate, out))]
          IN  reqs' = [reqs EXCEPT ![r] = ProbeResult(q, candidate, GetYahooQuote(out))]
    /\ UNCHANGED <<cache, pending>>

MatchResult_IgnoreHit(q, found) == [q EXCEPT !.hit = found, !.pc = "quote"]

MatchResult_Restamp(q, found) ==
    IF found # None
    THEN [Finish(q, PriceResponse(found[1].price, CacheTTL(q.env))) EXCEPT !.hit = found]
    ELSE [q EXCEPT !.pc = "quote"]

\* What the handler does with the result of cache.match
MatchResult(q, found) ==
    IF found # None
    THEN [Finish(q, found[1].resp) EXCEPT !.hit = found]
    ELSE [q EXCEPT !.pc = "quote"]

CacheMatch_SeesPending(r) ==
    /\ reqs[r].pc = "lookup"
    /\ LET key   == CacheKey(reqs[r].url)
           found == IF key \in DOMAIN cache THEN Some(cache[key])
                    ELSE IF \E t \in pending : t.key = key
                    THEN Some((CHOOSE t \in pending : t.key = key).entry)
                    ELSE None
           q     == [reqs[r] EXCEPT !.lookups = Append(@, key)]
       IN  reqs' = [reqs EXCEPT ![r] = MatchResult(q, found)]
    /\ UNCHANGED <<cache, pending>>

\* cache.match(cacheKey)
CacheMatch(r) ==
    /\ reqs[r].pc = "lookup"
    /\ LET key   == CacheKey(reqs[r].url)
           found == IF key \in DOMAIN cache THEN Some(cache[key]) ELSE None
           q     == [reqs[r] EXCEPT !.lookups = Append(@, key)]
       IN  reqs' = [reqs EXCEPT ![r] = MatchResult(q, found)]
    /\ UNCHANGED <<cache, pending>>

PutTask_FullUrl(q, price, response) ==
    [key |-> q.url.origin \o q.url.pathname \o q.url.search,
     entry |-> [resp |-> response, symbol |-> SymbolOf(q), search |-> q.url.search,
                price |-> price]]

\* The cache write handed to ctx.waitUntil for a price response
PutTask(q, price, response) ==
    [key |-> CacheKey(q.url),
     entry |-> [resp |-> response, symbol |-> SymbolOf(q), search |-> q.url.search,
                price |-> price]]

FetchQuote_CachesErrors(r, outcomes) ==
    /\ reqs[r].pc = "quote"
    /\ \E out \in outcomes :
          LET res == GetYahooQuote(out)
              q   == [reqs[r] EXCEPT !.calls = Append(@, Call("quote", SymbolOf(reqs[r]), out))]
          IN  IF res.threw
              THEN LET response == ErrorResponse(res.message)
                       task     == PutTask(q, JNull, response)
                   IN  /\ reqs' = [reqs EXCEPT
                                     ![r] = Finish([q EXCEPT !.puts = Append(@, task)], response)]
                       /\ pending' = pending \cup {task}
              ELSE IF res.value = JNull
              THEN /\ reqs' = [reqs EXCEPT ![r] = [q EXCEPT !.pc = "search"]]
                   /\ UNCHANGED pending
              ELSE LET response == PriceResponse(res.value, CacheTTL(q.env))
                       task     == PutTask(q, res.value, response)
                   IN  /\ reqs' = [reqs EXCEPT
                                     ![r] = Finish([q EXCEPT !.puts = Append(@, task)], response)]
                       /\ pending' = pending \cup {task}
    /\ UNCHANGED cache

FetchQuote_AwaitsPut(r, outcomes) ==
    /\ reqs[r].pc = "quote"
    /\ \E out \in outcomes :
          LET res == GetYahooQuote(out)
              q   == [reqs[r] EXCEPT !.calls = Append(@, Call("quote", SymbolOf(reqs[r]), out))]
          IN  IF res.threw
              THEN /\ reqs' = [reqs EXCEPT ![r] = Finish(q, ErrorResponse(res.message))]
                   /\ UNCHANGED cache
              ELSE IF res.value = JNull
              THEN /\ reqs' = [reqs EXCEPT ![r] = [q EXCEPT !.pc = "search"]]
                   /\ UNCHANGED cache
              ELSE LET response == PriceResponse(res.value, CacheTTL(q.env))
                       task     == PutTask(q, res.value, response)
                   IN  /\ reqs' = [reqs EXCEPT
                                     ![r] = Finish([q EXCEPT !.puts = Append(@, task)], response)]
                       /\ cache' = [k \in DOMAIN cache \cup {task.key} |->
                                      IF k = task.key THEN task.entry ELSE cache[k]]
    /\ UNCHANGED pending

\* getYahooQuote(symbol) on a cache miss, and the handler's answer to it
FetchQuote(r, outcomes) ==
    /\ reqs[r].pc = "quote"
    /\ \E out \in outcomes :
          LET res == GetYahooQuote(out)
              q   == [reqs[r] EXCEPT !.calls = Append(@, Call("quote", SymbolOf(reqs[r]), out))]
          IN  IF res.threw
              THEN /\ reqs' = [reqs EXCEPT ![r] = Finish(q, ErrorResponse(res.message))]
                   /\ UNCHANGED pending
              ELSE IF res.value = JNull
              THEN /\ reqs' = [reqs EXCEPT ![r] = [q EXCEPT !.pc = "search"]]
                   /\ UNCHANGED pending
              ELSE LET response == PriceResponse(res.value, CacheTTL(q.env))
                       task     == PutTask(q, res.value, response)
                   IN  /\ reqs' = [reqs EXCEPT
                                     ![r] = Finish([q EXCEPT !.puts = Append(@, task)], response)]
                       /\ pending' = pending \cup {task}
    /\ UNCHANGED cache

SearchResult_Propagate(q, res) ==
    IF res.threw THEN Finish(q, ErrorResponse(res.message))
    ELSE IF Len(res.value) > 0 THEN Finish(q, SimilarResponse(res.value))
    ELSE Finish(q, PriceNotAvailable)

SearchResult_Retry(q, res) ==
    IF res.threw THEN [q EXCEPT !.pc = "search"]
    ELSE IF Len(res.value) > 0 THEN Finish(q, SimilarResponse(res.value))
    ELSE Finish(q, PriceNotAvailable)

\* What the handler does with the result of searchYahooSymbol
SearchResult(q, res) ==
    IF ~res.threw /\ Len(res.value) > 0
    THEN Finish(q, SimilarResponse(res.value))
    ELSE Finish(q, PriceNotAvailable)

\* searchYahooSymbol(symbol) after a quote without a price
SearchSymbol(r, outcomes) ==
    /\ reqs[r].pc = "search"
    /\ \E out \in outcomes :
          LET q == [reqs[r] EXCEPT !.calls = Append(@, Call("search", SymbolOf(reqs[r]), out))]
          IN  reqs' = [reqs EXCEPT ![r] = SearchResult(q, SearchYahooSymbol(out))]
    /\ UNCHANGED <<cache, pending>>

\* A detached cache.put completes
CachePut(t) ==
    /\ t \in pending
    /\ cache' = [k \in DOMAIN cache \cup {t.key} |-> IF k = t.key THEN t.entry ELSE cache[k]]
    /\ pending' = pending \ {t}
    /\ UNCHANGED reqs

CachePutFails_Surfaces(t) ==
    /\ t \in pending
    /\ pending' = pending \ {t}
    /\ reqs' = [r \in Slots |->
                  IF reqs[r].pc = "done" /\ reqs[r].puts = <<t>>
                  THEN [reqs[r] EXCEPT !.response = Some(ErrorResponse("cache.put failed"))]
                  ELSE reqs[r]]
    /\ UNCHANGED cache

\* A detached cache.put rejects: nothing is stored
CachePutFails(t) ==
    /\ t \in pending
    /\ pending' = pending \ {t}
    /\ UNCHANGED <<cache, reqs>>

\* The max-age of an entry elapses and the cache drops it
Expire(k) ==
    /\ k \in DOMAIN cache
    /\ cache' = [j \in DOMAIN cache \ {k} |-> cache[j]]
    /\ UNCHANGED <<pending, reqs>>

-----------------------------------------------------------------------------
(* The inputs the specifications draw from.                                *)

Origin == <<"h","t","t","p",":","/","/","l","o","c","a","l","h","o","s","t">>

SymA == <<"A">>

SymLowerA == <<"a">>

SymAMI == <<"A",".","M","I">>

SymBitA == <<"B","I","T",":","A">>

SymLowerBitA == <<"b","i","t",":","A">>

SymNyseA == <<"N","Y","S","E",":","A">>

SymBitEmpty == <<"B","I","T",":">>

SymBitAB == <<"B","I","T",":","A",":","B">>

SymBitPercent == <<"B","I","T",":","%","4","1">>

QuotePath(symbol) == QuotesPrefix \o symbol

RootPath == <<"/">>

OtherPath == <<"/","o","t","h","e","r">>

NestedPath == QuotesPrefix \o <<"A","/","B">>

NoSymbolPath == QuotesPrefix

NoSlashPath == SubSeq(QuotesPrefix, 1, Len(QuotesPrefix) - 1)

NoQuery == <<>>

QueryX == <<"?","x","=","1">>

QueryY == <<"?","y","=","2">>

Url(pathname, search) == [origin |-> Origin, pathname |-> pathname, search |-> search]

\* The env object: a binding that is unset is absent
MakeEnv(ttl, root) ==
    (IF ttl = None THEN <<>> ELSE ("CACHE_TTL" :> ttl[1]))
        @@ (IF root = None THEN <<>> ELSE ("ROOT_REDIRECT_URL" :> root[1]))

Input(method, pathname, search, env) ==
    [method |-> method, url |-> Url(pathname, search), env |-> env]

TTL600 == <<"6","0","0">>

TTL0 == <<"0">>

TTL60s == <<"6","0","s">>

TTLabc == <<"a","b","c">>

UrlHttps == <<"h","t","t","p","s",":","/","/","e",".","c","o">>

UrlHttpsSlash == UrlHttps \o <<"/">>

UrlHttpPath == <<"h","t","t","p",":","/","/","e",".","c","o","/","p">>

UrlUpper == <<"H","T","T","P","S",":","/","/","E",".","c","o","/">>

UrlFtp == <<"f","t","p",":","/","/","e",".","c","o","/">>

UrlMailto == <<"m","a","i","l","t","o",":","a">>

UrlMalformed == <<"n","o","t","-","a","-","u","r","l">>

\* The provider's chart answer carrying a price
ChartJson(price) ==
    JObj("chart" :> JObj("result" :> JArr(<<JObj("meta" :>
        JObj("regularMarketPrice" :> JNum(price)))>>)))

\* A chart answer whose meta holds no price
ChartNoPrice == JObj("chart" :> JObj("result" :> JArr(<<JObj("meta" :> JObj(<<>>))>>)))

\* A chart answer without a result
ChartNoResult == JObj("chart" :> JObj("result" :> JNull))

QuoteJson(symbol) == JObj("symbol" :> JStr(symbol))

SearchJson(quotes) == JObj("quotes" :> JArr(quotes))

\* Prices in hundredths: 150.25, 175.5 and 42
Prices == {15025, 17550, 4200}

QuoteOutcomes ==
    {HttpResponse(200, Some(ChartJson(p))) : p \in Prices}
        \cup {HttpResponse(200, Some(ChartNoPrice)), HttpResponse(200, Some(ChartNoResult)),
              HttpResponse(200, None), HttpResponse(404, Some(ChartNoResult)),
              HttpResponse(500, None), Rejected("fetch failed")}

SearchOutcomes ==
    {HttpResponse(200, Some(SearchJson(<<>>))),
     HttpResponse(200, Some(SearchJson(<<QuoteJson(SymAMI)>>))),
     HttpResponse(200, Some(SearchJson(<<QuoteJson(SymAMI), JObj("symbol" :> JNum(100)),
                                         QuoteJson(SymLowerA), JNull, QuoteJson(SymA),
                                         QuoteJson(SymBitA)>>))),
     HttpResponse(200, Some(SearchJson(<<JObj(<<>>)>>))),
     HttpResponse(200, Some(JObj(<<>>))),
     HttpResponse(200, Some(JObj("quotes" :> JObj(<<>>)))),
     HttpResponse(200, None),
     HttpResponse(500, None),
     Rejected("fetch failed")}

\* Spec: a few symbols, served one request after the other over a shared cache
LifeInputs ==
    {Input("GET", QuotePath(s), NoQuery, MakeEnv(t, None)) :
        s \in {SymA, SymLowerA, SymBitA}, t \in {None}}
        \cup {Input("GET", QuotePath(SymA), NoQuery, MakeEnv(Some(TTL600), None)),
              Input("POST", QuotePath(SymA), NoQuery, <<>>),
              Input("GET", RootPath, NoQuery, <<>>),
              Input("GET", RootPath, NoQuery, MakeEnv(None, Some(UrlHttps)))}

LifeQuoteOutcomes ==
    {HttpResponse(200, Some(ChartJson(15025))), HttpResponse(200, Some(ChartJson(4200))),
     HttpResponse(200, Some(ChartNoPrice)), HttpResponse(404, Some(ChartNoResult)),
     HttpResponse(500, None), Rejected("fetch failed")}

LifeSearchOutcomes ==
    {HttpResponse(200, Some(SearchJson(<<>>))),
     HttpResponse(200, Some(SearchJson(<<QuoteJson(SymAMI)>>))),
     Rejected("fetch failed")}

Handle(r, quotes, searches) ==
    \/ NotFound(r)
    \/ RootRedirect(r)
    \/ RewriteSkip(r)
    \/ RewriteProbe(r, quotes)
    \/ CacheMatch(r)
    \/ FetchQuote(r, quotes)
    \/ SearchSymbol(r, searches)

Background ==
    \/ \E t \in pending : CachePut(t)
    \/ \E t \in pending : CachePutFails(t)
    \/ \E k \in DOMAIN cache : Expire(k)

Next ==
    \/ Receive(1, LifeInputs)
    \/ Handle(1, LifeQuoteOutcomes, LifeSearchOutcomes)
    \/ Background

Spec == Init /\ [][Next]_vars

-----------------------------------------------------------------------------
(* SpecSingle: one request drawn from a wide set of methods, paths,        *)
(* symbols and environments, against a cache that is empty or that an      *)
(* earlier request has filled.                                             *)

SingleSymbols ==
    {SymA, SymLowerA, SymAMI, SymBitA, SymLowerBitA, SymNyseA, SymBitEmpty, SymBitAB,
     SymBitPercent}

SinglePaths ==
    {QuotePath(s) : s \in SingleSymbols}
        \cup {RootPath, OtherPath, NestedPath, NoSymbolPath, NoSlashPath}

SingleTTLs == {None, Some(<<>>), Some(TTL600), Some(TTL0), Some(TTL60s), Some(TTLabc)}

SingleRoots ==
    {None, Some(<<>>), Some(UrlHttps), Some(UrlHttpsSlash), Some(UrlHttpPath),
     Some(UrlUpper), Some(UrlFtp), Some(UrlMailto), Some(UrlMalformed)}

SingleInputs ==
    {Input(m, p, s, MakeEnv(t, u)) :
        m \in {"GET"}, p \in {QuotePath(y) : y \in SingleSymbols}, s \in {NoQuery, QueryX},
        t \in SingleTTLs, u \in {None, Some(UrlHttps)}}
    \cup
    {Input(m, p, s, MakeEnv(t, u)) :
        m \in {"GET"}, p \in SinglePaths \ {QuotePath(y) : y \in SingleSymbols},
        s \in {NoQuery, QueryX}, t \in {None, Some(TTL600)}, u \in SingleRoots}
    \cup
    {Input(m, p, s, MakeEnv(t, u)) :
        m \in {"POST", "HEAD"}, p \in SinglePaths, s \in {NoQuery, QueryX},
        t \in {None, Some(TTL600)}, u \in SingleRoots}

\* The entry a request for the symbol stores when the provider reports 150.25
SeedEntry(symbol) ==
    [resp |-> PriceResponse(JNum(15025), CacheTTL(<<>>)), symbol |-> symbol,
     search |-> NoQuery, price |-> JNum(15025)]

\* The caches the request may meet: empty, or holding the entry of one symbol
SeedCaches(i) ==
    {<<>>} \cup
    {(CacheKey(Url(QuotePath(y), NoQuery)) :> SeedEntry(y)) :
        y \in {SymA} \cup (IF MatchQuote(i.url.pathname) # None
                           THEN {MatchQuote(i.url.pathname)[1]} ELSE {})}

InitSingle ==
    /\ pending = {}
    /\ \E i \in SingleInputs :
          /\ cache \in SeedCaches(i)
          /\ reqs = [r \in Slots |-> IF r = 1 THEN Fresh(i) ELSE Idle]

NextSingle ==
    \/ Handle(1, QuoteOutcomes, SearchOutcomes)
    \/ Background

SpecSingle == InitSingle /\ [][NextSingle]_vars

-----------------------------------------------------------------------------
(* SpecQuery: one priced symbol and one exchange-prefixed symbol, requested *)
(* with differing query strings over a shared cache.                       *)

QueryInputs ==
    {Input("GET", QuotePath(y), s, <<>>) :
        y \in {SymA, SymBitA}, s \in {NoQuery, QueryX, QueryY}}
        \cup {Input("POST", QuotePath(SymA), QueryX, <<>>),
              Input("GET", RootPath, QueryX, <<>>),
              Input("GET", RootPath, QueryX, MakeEnv(None, Some(UrlHttps)))}

QueryQuoteOutcomes ==
    {HttpResponse(200, Some(ChartJson(15025))), HttpResponse(200, Some(ChartNoPrice)),
     HttpResponse(500, None)}

QuerySearchOutcomes ==
    {HttpResponse(200, Some(SearchJson(<<>>))),
     HttpResponse(200, Some(SearchJson(<<QuoteJson(SymAMI)>>)))}

NextQuery ==
    \/ Receive(1, QueryInputs)
    \/ Handle(1, QueryQuoteOutcomes, QuerySearchOutcomes)
    \/ Background

SpecQuery == Init /\ [][NextQuery]_vars

-----------------------------------------------------------------------------
(* SpecDetached: the requests of SpecQuery under the guarantee of          *)
(* ctx.waitUntil, which keeps the invocation alive until the promise of    *)
(* cache.put has settled: every write handed over is eventually fulfilled  *)
(* or rejected.                                                            *)

\* The promise of a detached cache.put settles
Settle(t) == CachePut(t) \/ CachePutFails(t)

\* The writes the requests of SpecQuery can hand over
DetachedTasks ==
    {PutTask(Fresh(i), GetYahooQuote(out).value,
             PriceResponse(GetYahooQuote(out).value, CacheTTL(i.env))) :
        i \in {j \in QueryInputs : IsQuoteRequest(Fresh(j))},
        out \in {o \in QueryQuoteOutcomes :
                    ~GetYahooQuote(o).threw /\ GetYahooQuote(o).value # JNull}}

SpecDetached ==
    Init /\ [][NextQuery]_vars /\ \A t \in DetachedTasks : WF_vars(Settle(t))

-----------------------------------------------------------------------------
(* SpecFollow: a client that follows the redirects the handler answers.    *)
(* Slot 1 holds the client's request; when slot r ends in a 301 whose      *)
(* Location lies on the origin of the request, slot r + 1 receives the GET *)
(* for that Location under the same environment.                           *)

\* A root redirect that points at the worker's own root
UrlSelf == Origin \o <<"/">>

\* The Location lies on the origin of the URL
SameOrigin(location, url) ==
    /\ Len(location) > Len(url.origin)
    /\ SubSeq(location, 1, Len(url.origin)) = url.origin
    /\ location[Len(url.origin) + 1] = "/"

\* new URL(location), for a Location on the origin of the URL: the path is
\* kept as written, percent-escapes included
LocationUrl(location, url) ==
    [origin |-> url.origin,
     pathname |-> SubSeq(location, Len(url.origin) + 1, Len(location)),
     search |-> <<>>]

\* The client follows the 301 of slot r with a GET in slot r + 1
Follow(r) ==
    /\ r + 1 \in Slots
    /\ reqs[r].pc = "done"
    /\ reqs[r].response[1].status = 301
    /\ SameOrigin(reqs[r].response[1].headers["Location"], reqs[r].url)
    /\ reqs[r + 1].pc = "idle"
    /\ reqs' = [reqs EXCEPT
                  ![r + 1] = Fresh([method |-> "GET",
                                    url |-> LocationUrl(reqs[r].response[1].headers["Location"],
                                                        reqs[r].url),
                                    env |-> reqs[r].env])]
    /\ UNCHANGED <<cache, pending>>

FollowInputs ==
    {Input("GET", QuotePath(y), NoQuery, <<>>) :
        y \in {SymA, SymBitA, SymLowerBitA, SymBitAB, SymBitPercent, SymNyseA}}
        \cup {Input("POST", QuotePath(SymBitA), NoQuery, <<>>),
              Input("GET", RootPath, NoQuery, <<>>),
              Input("GET", RootPath, NoQuery, MakeEnv(None, Some(UrlHttps))),
              Input("GET", RootPath, NoQuery, MakeEnv(None, Some(UrlSelf)))}

FollowQuoteOutcomes ==
    {HttpResponse(200, Some(ChartJson(15025))), HttpResponse(200, Some(ChartNoPrice)),
     HttpResponse(500, None)}

FollowSearchOutcomes ==
    {HttpResponse(200, Some(SearchJson(<<>>))),
     HttpResponse(200, Some(SearchJson(<<QuoteJson(SymAMI)>>)))}

\* The caches the client may meet: empty, or holding the entry of A.MI
FollowCaches ==
    {<<>>, (CacheKey(Url(QuotePath(SymAMI), NoQuery)) :> SeedEntry(SymAMI))}

InitFollow ==
    /\ cache \in FollowCaches
    /\ pending = {}
    /\ \E i \in FollowInputs : reqs = [r \in Slots |-> IF r = 1 THEN Fresh(i) ELSE Idle]

NextFollow ==
    \/ \E r \in Slots : Handle(r, FollowQuoteOutcomes, FollowSearchOutcomes)
    \/ \E r \in Slots : Follow(r)
    \/ Background

SpecFollow == InitFollow /\ [][NextFollow]_vars

-----------------------------------------------------------------------------
(* SpecOverlap: one request per slot, all in flight at once over an empty  *)
(* cache; their steps and the detached writes interleave freely.           *)

OverlapInputs ==
    {Input("GET", QuotePath(SymA), NoQuery, <<>>),
     Input("GET", QuotePath(SymBitA), NoQuery, <<>>),
     Input("GET", RootPath, NoQuery, <<>>),
     Input("GET", RootPath, NoQuery, MakeEnv(None, Some(UrlHttps)))}

OverlapQuoteOutcomes ==
    {HttpResponse(200, Some(ChartJson(15025))), HttpResponse(200, Some(ChartJson(4200))),
     HttpResponse(200, Some(ChartNoPrice)), HttpResponse(500, None)}

OverlapSearchOutcomes ==
    {HttpResponse(200, Some(SearchJson(<<>>))),
     HttpResponse(200, Some(SearchJson(<<QuoteJson(SymAMI)>>)))}

InitOverlap ==
    /\ cache = <<>>
    /\ pending = {}
    /\ reqs \in [Slots -> {Fresh(i) : i \in OverlapInputs}]

NextOverlap ==
    \/ \E r \in Slots : Handle(r, OverlapQuoteOutcomes, OverlapSearchOutcomes)
    \/ Background

SpecOverlap == InitOverlap /\ [][NextOverlap]_vars

-----------------------------------------------------------------------------
(* SpecRetry: a client that repeats its request within the TTL.  Slot 1    *)
(* holds the first request; once slot r has answered and its detached      *)
(* write has settled, slot r + 1 receives the same request again.  No      *)
(* entry expires.                                                          *)

\* The request of slot r is sent again, in slot r + 1
Retry(r) ==
    /\ r + 1 \in Slots
    /\ reqs[r].pc = "done"
    /\ pending = {}
    /\ reqs[r + 1].pc = "idle"
    /\ reqs' = [reqs EXCEPT
                  ![r + 1] = Fresh([method |-> reqs[r].method, url |-> reqs[r].url,
                                    env |-> reqs[r].env])]
    /\ UNCHANGED <<cache, pending>>

InitRetry ==
    /\ cache = <<>>
    /\ pending = {}
    /\ \E i \in OverlapInputs : reqs = [r \in Slots |-> IF r = 1 THEN Fresh(i) ELSE Idle]

NextRetry ==
    \/ \E r \in Slots : Handle(r, OverlapQuoteOutcomes, OverlapSearchOutcomes)
    \/ \E r \in Slots : Retry(r)
    \/ \E t \in pending : CachePut(t)
    \/ \E t \in pending : CachePutFails(t)

SpecRetry == InitRetry /\ [][NextRetry]_vars

-----------------------------------------------------------------------------
(* Vocabulary of the properties.                                           *)

Done(r) == reqs[r].pc = "done"

Response(r) == reqs[r].response[1]

\* The request is a GET whose path is /api/quotes/{symbol}
QuoteGet(r) ==
    /\ reqs[r].pc # "idle"
    /\ reqs[r].method = "GET"
    /\ MatchQuote(reqs[r].url.pathname) # None

Symbol(r) == MatchQuote(reqs[r].url.pathname)[1]

\* The provider's answer reports a price
ReportsPrice(out) ==
    /\ out.kind = "response"
    /\ out.status = 200
    /\ \E p \in Prices : out.json = Some(ChartJson(p))

ReportedPrice(out) == CHOOSE p \in Prices : out.json = Some(ChartJson(p))

\* The symbol has the form BIT:BASE (prefix in any case, BASE not empty); BASE
\* ends at a second ":" when there is one
BitForm(s) ==
    /\ Len(s) >= 5
    /\ ToUpperCase(SubSeq(s, 1, 3)) = <<"B","I","T">>
    /\ s[4] = ":"
    /\ s[5] # ":"

BaseOf(s) ==
    LET rest == SubSeq(s, 5, Len(s))
    IN  IF Includes(rest, ":") THEN SubSeq(rest, 1, IndexOf(rest, ":") - 1) ELSE rest

\* The calls of a request to the provider's quote endpoint for its own symbol
OwnQuoteCalls(r) ==
    {n \in 1..Len(reqs[r].calls) :
        reqs[r].calls[n].fn = "quote" /\ reqs[r].calls[n].arg = Symbol(r)}

\* The calls of a request that probe another symbol
ProbeCalls(r) ==
    {n \in 1..Len(reqs[r].calls) :
        reqs[r].calls[n].fn = "quote" /\ reqs[r].calls[n].arg # Symbol(r)}

SearchCalls(r) ==
    {n \in 1..Len(reqs[r].calls) : reqs[r].calls[n].fn = "search"}

Hit(r) == reqs[r].hit # None

\* The request looked the cache up and found nothing
Missed(r) == reqs[r].lookups # <<>> /\ reqs[r].hit = None /\ reqs[r].pc # "lookup"

-----------------------------------------------------------------------------
(* C1                                                                      *)

\* On a miss the provider's price P is answered as 200 with P's text
FirstGetAnswersPrice(r) ==
    \A n \in OwnQuoteCalls(r) :
        ReportsPrice(reqs[r].calls[n].out) =>
            /\ Response(r).status = 200
            /\ Response(r).body = PriceToString(ReportedPrice(reqs[r].calls[n].out))

\* On a hit the answer is the stored 200 response, whose body is the text of
\* the price the provider reported to the request that stored it
HitAnswersStored(r) ==
    /\ Response(r) = reqs[r].hit[1].resp
    /\ Response(r).status = 200
    /\ Response(r).body = PriceToString(reqs[r].hit[1].price.v)
    /\ reqs[r].hit[1].symbol = Symbol(r)

-----------------------------------------------------------------------------
(* C2                                                                      *)

\* Every entry is stored under the key of the symbol it was fetched for, and a
\* hit returns the entry of the request's own symbol
EntriesKeyedBySymbol ==
    /\ \A k \in DOMAIN cache : k = Origin \o QuotesPrefix \o cache[k].symbol
    /\ \A r \in Slots : (QuoteGet(r) /\ Hit(r)) => reqs[r].hit[1].symbol = Symbol(r)

-----------------------------------------------------------------------------
(* C3                                                                      *)

\* The cache holds an entry stored by a request for the symbol of r
CachedFor(r) == \E k \in DOMAIN cache : cache[k].symbol = Symbol(r)

-----------------------------------------------------------------------------
(* C4                                                                      *)

\* C4: a request whose method is not GET is answered 404 "Not Found", whatever
\* its path and environment, without an upstream call, a cache lookup or a
\* cache write.
C4_NonGetNotFound ==
    \A r \in Slots :
        (reqs[r].pc # "idle" /\ reqs[r].method # "GET") =>
            /\ reqs[r].pc \in {"start", "done"}
            /\ reqs[r].calls = <<>>
            /\ reqs[r].lookups = <<>>
            /\ reqs[r].puts = <<>>
            /\ Done(r) =>
                  /\ Response(r).status = 404
                  /\ Response(r).body = "Not Found"

\* A POST to a quote path whose key is cached, under a valid root redirect
C4_Witness ==
    \E r \in Slots :
        /\ Done(r)
        /\ reqs[r].method = "POST"
        /\ MatchQuote(reqs[r].url.pathname) # None
        /\ CacheKey(reqs[r].url) \in DOMAIN cache
        /\ "ROOT_REDIRECT_URL" \in DOMAIN reqs[r].env
        /\ reqs[r].env["ROOT_REDIRECT_URL"] = UrlHttpsSlash
        /\ Response(r).status = 404

-----------------------------------------------------------------------------
(* C5                                                                      *)

\* The upstream call failed: fetch rejected, or a status that is neither a
\* success nor 404
Fails(out) ==
    \/ out.kind = "reject"
    \/ out.kind = "response" /\ out.status # 404 /\ ~(out.status \in 200..299)

FailureMessage(out) ==
    IF out.kind = "reject" THEN out.message
    ELSE "Yahoo Finance API error: " \o NatToString(out.status)

\* C5: on a cache miss, a failed upstream quote call is answered 500 with the
\* body "Error fetching quote: " followed by the failure message, and no
\* search call is made.
C5_UpstreamFailure ==
    \A r \in Slots :
        QuoteGet(r) =>
            \A n \in OwnQuoteCalls(r) :
                Fails(reqs[r].calls[n].out) =>
                    /\ Done(r)
                    /\ Missed(r)
                    /\ Response(r).status = 500
                    /\ Response(r).body =
                          "Error fetching quote: " \o FailureMessage(reqs[r].calls[n].out)
                    /\ SearchCalls(r) = {}

\* The provider answered the quote call with status 500
C5_Witness ==
    \E r \in Slots :
        /\ Done(r) /\ QuoteGet(r)
        /\ \E n \in OwnQuoteCalls(r) : reqs[r].calls[n].out = HttpResponse(500, None)
        /\ Response(r).body = "Error fetching quote: Yahoo Finance API error: 500"

-----------------------------------------------------------------------------
(* C6                                                                      *)

\* The provider answered successfully, with an empty or missing price field
NoPriceAnswer(out) ==
    /\ out.kind = "response"
    /\ out.status = 200
    /\ out.json \in {Some(ChartNoPrice), Some(ChartNoResult)}

\* The search answered with at least one quote whose symbol is a string
Suggests(out) ==
    /\ out.kind = "response"
    /\ out.status \in 200..299
    /\ out.json # None
    /\ Get(out.json[1], "quotes").t = "array"
    /\ \E i \in 1..Len(Get(out.json[1], "quotes").v) :
          Get(Get(out.json[1], "quotes").v[i], "symbol").t = "string"

SimilarBodies ==
    {"Symbol not found - similar: A.MI", "Symbol not found - similar: A.MI a A"}

\* The answers that end a request without a price
NoPriceOutcome(r) ==
    /\ SearchCalls(r) # {}
    /\ \A n \in SearchCalls(r) :
          IF Suggests(reqs[r].calls[n].out)
          THEN Response(r).status = 200 /\ Response(r).body \in SimilarBodies
          ELSE Response(r).status = 404 /\ Response(r).body = "Price not available"

\* C6: on a cache miss, a successful provider answer without a price is
\* answered 404 "Price not available" when the search yields no suggestion and
\* 200 "Symbol not found - similar: ..." when it yields at least one.
C6_NoPrice ==
    \A r \in Slots :
        (Done(r) /\ QuoteGet(r)) =>
            \A n \in OwnQuoteCalls(r) :
                NoPriceAnswer(reqs[r].calls[n].out) => Missed(r) /\ NoPriceOutcome(r)

\* A missing price answered with the suggestions of the search
C6_Witness ==
    \E r \in Slots :
        /\ Done(r) /\ QuoteGet(r)
        /\ \E n \in OwnQuoteCalls(r) : reqs[r].calls[n].out = HttpResponse(200, Some(ChartNoPrice))
        /\ \E n \in SearchCalls(r) : Suggests(reqs[r].calls[n].out)
        /\ Response(r).status = 200
        /\ Response(r).body = "Symbol not found - similar: A.MI a A"

-----------------------------------------------------------------------------
(* C7                                                                      *)

\* C7: the provider's 404 on the quote call is taken as "no price": the search
\* follows and the answer is 404 "Price not available" or the 200 "similar"
\* message, never a 500.
C7_NotFoundIsNoPrice ==
    \A r \in Slots :
        QuoteGet(r) =>
            \A n \in OwnQuoteCalls(r) :
                (reqs[r].calls[n].out.kind = "response" /\ reqs[r].calls[n].out.status = 404) =>
                    /\ reqs[r].pc \in {"search", "done"}
                    /\ Done(r) => (NoPriceOutcome(r) /\ Response(r).status # 500)

\* The provider's 404 answered as 404 "Price not available"
C7_Witness ==
    \E r \in Slots :
        /\ Done(r) /\ QuoteGet(r)
        /\ \E n \in OwnQuoteCalls(r) :
              reqs[r].calls[n].out = HttpResponse(404, Some(ChartNoResult))
        /\ Response(r).status = 404
        /\ Response(r).body = "Price not available"

-----------------------------------------------------------------------------
(* C8                                                                      *)

\* C8: a GET for a symbol BIT:BASE (prefix in any case) probes the provider for
\* BASE.MI first, and when the probe reports a price the answer is a 301 whose
\* Location is /api/quotes/ followed by the URL-encoded BASE.MI on the origin
\* of the request: no price is returned and the cache is not looked up.
C8_ExchangeRewrite ==
    \A r \in Slots :
        (QuoteGet(r) /\ BitForm(Symbol(r)) /\ reqs[r].pc # "start") =>
            /\ reqs[r].calls # <<>>
            /\ reqs[r].calls[1].fn = "quote"
            /\ reqs[r].calls[1].arg = BaseOf(Symbol(r)) \o <<".","M","I">>
            /\ ReportsPrice(reqs[r].calls[1].out) =>
                  /\ Done(r)
                  /\ Response(r).status = 301
                  /\ Response(r).body = ""
                  /\ Response(r).headers["Location"] =
                        reqs[r].url.origin \o QuotesPrefix
                            \o EncodeURIComponent(BaseOf(Symbol(r)) \o <<".","M","I">>)
                  /\ Len(reqs[r].calls) = 1
                  /\ reqs[r].lookups = <<>>

\* bit:A is redirected to /api/quotes/A.MI
C8_Witness ==
    \E r \in Slots :
        /\ Done(r) /\ QuoteGet(r)
        /\ Symbol(r) = SymLowerBitA
        /\ ReportsPrice(reqs[r].calls[1].out)
        /\ Response(r).status = 301
        /\ Response(r).headers["Location"] = Origin \o QuotePath(SymAMI)

-----------------------------------------------------------------------------
(* C9                                                                      *)

\* The call threw inside getYahooQuote or searchYahooSymbol, or (for the
\* search) came back with a status that is not a success
Throws(out) ==
    \/ out.kind = "reject"
    \/ out.kind = "response" /\ out.status # 404 /\ ~(out.status \in 200..299)
    \/ out.kind = "response" /\ out.status \in 200..299 /\ out.json = None

SearchFails(out) ==
    \/ out.kind = "reject"
    \/ out.kind = "response" /\ ~(out.status \in 200..299)
    \/ out.kind = "response" /\ out.json = None

\* C9: a failed rewrite probe leaves the request where a request without a
\* rewrite is (at the cache lookup, nothing answered yet), a failed search is
\* answered 404 "Price not available", and a 500 comes only from a failure of
\* the quote call for the request's own symbol.
C9_SwallowedFailures ==
    \A r \in Slots :
        QuoteGet(r) =>
            /\ \A n \in ProbeCalls(r) :
                  Throws(reqs[r].calls[n].out) =>
                      /\ reqs[r].pc # "start"
                      /\ reqs[r].pc = "lookup" =>
                            (reqs[r].response = None /\ reqs[r].lookups = <<>>)
                      /\ reqs[r].pc # "lookup" => Len(reqs[r].lookups) = 1
            /\ \A n \in SearchCalls(r) :
                  SearchFails(reqs[r].calls[n].out) =>
                      /\ Done(r)
                      /\ Response(r).status = 404
                      /\ Response(r).body = "Price not available"
            /\ (Done(r) /\ Response(r).status = 500) =>
                  \E n \in OwnQuoteCalls(r) :
                      n = Len(reqs[r].calls) /\ Throws(reqs[r].calls[n].out)

\* A request whose probe and whose search both failed, answered 404
C9_Witness ==
    \E r \in Slots :
        /\ Done(r) /\ QuoteGet(r)
        /\ \E n \in ProbeCalls(r) : reqs[r].calls[n].out = Rejected("fetch failed")
        /\ \E n \in SearchCalls(r) : reqs[r].calls[n].out = Rejected("fetch failed")
        /\ Response(r).status = 404
        /\ Response(r).body = "Price not available"

-----------------------------------------------------------------------------
(* C10                                                                     *)

\* The configured values that are absolute http or https URLs
ValidRoots == {UrlHttps, UrlHttpsSlash, UrlHttpPath, UrlUpper}

RootConfigured(r) ==
    /\ "ROOT_REDIRECT_URL" \in DOMAIN reqs[r].env
    /\ reqs[r].env["ROOT_REDIRECT_URL"] \in ValidRoots

\* The serialised form of each valid configured value: scheme and host in
\* lower case, and "/" for an empty path
SerialisedRoot(u) ==
    IF u \in {UrlHttps, UrlUpper} THEN UrlHttpsSlash ELSE u

-----------------------------------------------------------------------------
(* C11                                                                     *)

\* The request missed the cache and the provider reported a price for it
PricedMiss(r) ==
    /\ Done(r) /\ QuoteGet(r) /\ Missed(r)
    /\ \E n \in OwnQuoteCalls(r) : ReportsPrice(reqs[r].calls[n].out)

\* CACHE_TTL is unset or empty
TTLUnset(r) ==
    "CACHE_TTL" \notin DOMAIN reqs[r].env \/ reqs[r].env["CACHE_TTL"] = <<>>

\* CACHE_TTL is the decimal text of a natural number
TTLInteger(r) ==
    /\ "CACHE_TTL" \in DOMAIN reqs[r].env
    /\ reqs[r].env["CACHE_TTL"] # <<>>
    /\ \A i \in 1..Len(reqs[r].env["CACHE_TTL"]) : IsDigit(reqs[r].env["CACHE_TTL"][i])

\* C11: a price response built on a cache miss carries Cache-Control: public,
\* max-age=N, where N is the integer CACHE_TTL holds when it is set to one
\* (600 gives max-age=600, 0 gives max-age=0) and 300 when CACHE_TTL is unset
\* or empty.
C11_MaxAge ==
    \A r \in Slots :
        PricedMiss(r) =>
            /\ Response(r).status = 200
            /\ "Cache-Control" \in DOMAIN Response(r).headers
            /\ TTLUnset(r) => Response(r).headers["Cache-Control"] = "public, max-age=300"
            /\ TTLInteger(r) =>
                  Response(r).headers["Cache-Control"] =
                      "public, max-age=" \o Str(reqs[r].env["CACHE_TTL"])

\* A price answered under CACHE_TTL=600 with max-age=600
C11_Witness ==
    \E r \in Slots :
        /\ PricedMiss(r)
        /\ TTLInteger(r)
        /\ reqs[r].env["CACHE_TTL"] = TTL600
        /\ Response(r).headers["Cache-Control"] = "public, max-age=600"

-----------------------------------------------------------------------------
(* C12                                                                     *)

\* The entry is a 200 response whose body is the text of a price the provider
\* reported and whose headers carry the max-age
PriceEntry(e) ==
    /\ e.resp.status = 200
    /\ e.price.t = "number"
    /\ e.resp.body = PriceToString(e.price.v)
    /\ DOMAIN e.resp.headers = {"Content-Type", "Cache-Control"}

\* C12: whatever requests were served, every entry of the cache, and every
\* entry on its way to the cache, is a 200 price response: no 404, no 200
\* "similar" message, no 500 and no 301 is ever written.
C12_OnlyPricesCached ==
    /\ \A k \in DOMAIN cache : PriceEntry(cache[k])
    /\ \A t \in pending : PriceEntry(t.entry)

\* A request answered 500 for a key under which the cache holds the price an
\* earlier request stored
C12_Witness ==
    \E r \in Slots :
        /\ Done(r) /\ QuoteGet(r)
        /\ Response(r).status = 500
        /\ CacheKey(reqs[r].url) \in DOMAIN cache
        /\ cache[CacheKey(reqs[r].url)].resp.status = 200
        /\ pending = {}

-----------------------------------------------------------------------------
(* C13                                                                     *)

\* The step that answers a price hands exactly one write to waitUntil, which
\* is still outstanding when the response is produced, and leaves the cache as
\* it was
AnswersBeforeWrite ==
    \A r \in Slots :
        (reqs[r].pc = "quote" /\ reqs'[r].pc = "done" /\ reqs'[r].response[1].status = 200) =>
            /\ Len(reqs'[r].puts) = 1
            /\ reqs'[r].puts[1] \in pending'
            /\ cache' = cache

\* C13: the price response is produced in the step that hands the cache write
\* to the execution context, with the write still outstanding and the cache
\* untouched; and every write handed over eventually settles.
C13_DetachedWrite ==
    /\ [][AnswersBeforeWrite]_vars
    /\ \A t \in DetachedTasks : (t \in pending) ~> (t \notin pending)

\* The response is produced while its write is outstanding and its key absent
C13_Witness ==
    \E r \in Slots :
        /\ Done(r) /\ QuoteGet(r)
        /\ Response(r).status = 200
        /\ Len(reqs[r].puts) = 1
        /\ reqs[r].puts[1] \in pending
        /\ CacheKey(reqs[r].url) \notin DOMAIN cache

-----------------------------------------------------------------------------
(* C14                                                                     *)

\* The lookup that finds an entry ends the request with the stored response,
\* hands nothing to waitUntil and leaves the cache and the outstanding writes
\* as they were
HitStep ==
    \A r \in Slots :
        LET key == reqs[r].url.origin \o reqs[r].url.pathname
        IN  (reqs[r].pc = "lookup" /\ reqs'[r].pc # "lookup" /\ key \in DOMAIN cache) =>
                /\ reqs'[r].pc = "done"
                /\ reqs'[r].response = Some(cache[key].resp)
                /\ reqs'[r].puts = <<>>
                /\ reqs'[r].calls = reqs[r].calls
                /\ cache' = cache
                /\ pending' = pending

-----------------------------------------------------------------------------
(* C15                                                                     *)

HasTextPlain(resp) ==
    /\ "Content-Type" \in DOMAIN resp.headers
    /\ resp.headers["Content-Type"] = "text/plain"

\* C15 as claimed: every response the handler returns carries Content-Type:
\* text/plain, the 301 redirects included.
C15_Original ==
    \A r \in Slots : Done(r) => HasTextPlain(Response(r))

\* C15 as amended: every response the handler returns with a body (price,
\* cache hit, suggestion message, 404, 500) carries Content-Type: text/plain;
\* the two 301 redirects are built by Response.redirect and carry the Location
\* header only, with no Content-Type.
C15_ContentType ==
    \A r \in Slots :
        Done(r) =>
            IF Response(r).status = 301
            THEN DOMAIN Response(r).headers = {"Location"}
            ELSE HasTextPlain(Response(r))

\* A suggestion message answered as text/plain
C15_Witness ==
    \E r \in Slots :
        /\ Done(r) /\ QuoteGet(r)
        /\ Response(r).status = 200
        /\ Response(r).body = "Symbol not found - similar: A.MI"
        /\ HasTextPlain(Response(r))

-----------------------------------------------------------------------------
(* C16                                                                     *)

\* The path is /api/quotes/ followed by one non-empty segment
ExactQuotePath(p) ==
    /\ Len(p) > 12
    /\ SubSeq(p, 1, 12) = <<"/","a","p","i","/","q","u","o","t","e","s","/">>
    /\ \A i \in 13..Len(p) : p[i] # "/"

\* The request has entered quote resolution: it has passed its first step
\* other than by an answer, or has called upstream or touched the cache
Resolving(r) ==
    \/ reqs[r].pc \in {"lookup", "quote", "search"}
    \/ reqs[r].calls # <<>>
    \/ reqs[r].lookups # <<>>
    \/ reqs[r].puts # <<>>

\* C16: quote resolution is entered only for a path that is exactly
\* /api/quotes/{symbol}; a request for any other path makes no upstream call
\* and no cache access and is answered 404 "Not Found", except GET / under a
\* configured root redirect, which is answered 301; and a 301 to the
\* configured root is answered for the path / only.
C16_ExactRoute ==
    \A r \in Slots :
        /\ Resolving(r) => ExactQuotePath(reqs[r].url.pathname)
        /\ (Done(r) /\ ~ExactQuotePath(reqs[r].url.pathname)) =>
              IF reqs[r].url.pathname = <<"/">> /\ reqs[r].method = "GET" /\ RootConfigured(r)
              THEN Response(r).status = 301
              ELSE Response(r).status = 404 /\ Response(r).body = "Not Found"
        /\ (Done(r) /\ Response(r).status = 301 /\ reqs[r].url.pathname # <<"/">>) =>
              /\ QuoteGet(r)
              /\ BitForm(Symbol(r))
              /\ SubSeq(Response(r).headers["Location"], 1, Len(reqs[r].url.origin) + 12) =
                    reqs[r].url.origin \o <<"/","a","p","i","/","q","u","o","t","e","s","/">>

\* /api/quotes/A/B under a valid root redirect, over a cache that holds A, is
\* answered 404 "Not Found"
C16_Witness ==
    \E r \in Slots :
        /\ Done(r)
        /\ reqs[r].method = "GET"
        /\ reqs[r].url.pathname = NestedPath
        /\ RootConfigured(r)
        /\ cache # <<>>
        /\ Response(r).status = 404
        /\ Response(r).body = "Not Found"

-----------------------------------------------------------------------------
(* C17                                                                     *)

\* C17: a request that misses the cache and is answered a price hands exactly
\* one write to the cache, under the URL of the request without its query
\* string, and the copy written has the status, body and headers of the
\* response returned; a request with any other outcome hands over no write.
C17_OneWrite ==
    \A r \in Slots :
        reqs[r].pc # "idle" =>
            IF PricedMiss(r)
            THEN /\ Len(reqs[r].puts) = 1
                 /\ reqs[r].puts[1].key = reqs[r].url.origin \o reqs[r].url.pathname
                 /\ reqs[r].puts[1].entry.resp = Response(r)
                 /\ Response(r).status = 200
            ELSE reqs[r].puts = <<>>

\* A priced request for /api/quotes/A?x=1 writes under /api/quotes/A
C17_Witness ==
    \E r \in Slots :
        /\ PricedMiss(r)
        /\ reqs[r].url.search = QueryX
        /\ Len(reqs[r].puts) = 1
        /\ reqs[r].puts[1].key = Origin \o QuotePath(SymA)
        /\ reqs[r].puts[1].entry.resp.body = "150.25"

-----------------------------------------------------------------------------
(* C18                                                                     *)

\* The place of a call in the order rewrite probe (1), quote (2), search (3)
CallRank(r, n) ==
    IF reqs[r].calls[n].fn = "search" THEN 3
    ELSE IF reqs[r].calls[n].arg = Symbol(r) THEN 2
    ELSE 1

\* The quote call came back without a price and without a failure
YieldsNoPrice(out) ==
    /\ out.kind = "response"
    /\ \/ out.status = 404
       \/ out.status \in 200..299 /\ out.json # None /\ ~ReportsPrice(out)

\* The upstream calls of a request, in the order it made them
CallOrder(r) ==
    /\ Len(reqs[r].calls) <= 3
    /\ \A i, j \in 1..Len(reqs[r].calls) : i < j => CallRank(r, i) < CallRank(r, j)
    /\ OwnQuoteCalls(r) # {} => (Len(reqs[r].lookups) = 1 /\ reqs[r].hit = None)
    /\ \A n \in SearchCalls(r) :
          /\ n > 1
          /\ (n - 1) \in OwnQuoteCalls(r)
          /\ YieldsNoPrice(reqs[r].calls[n - 1].out)
    /\ Done(r) <=> reqs[r].response # None

\* A request that has answered makes no further call and keeps its response
AnswersOnce ==
    \A r \in Slots :
        reqs[r].response # None =>
            /\ reqs'[r].response = reqs[r].response
            /\ reqs'[r].calls = reqs[r].calls

\* C18: within one request the upstream calls are made in the order rewrite
\* probe, quote, search, each at most once (at most three calls); the quote
\* call follows a cache miss, the search call follows a quote call that came
\* back without a price, and the request ends with one response, after which
\* it calls nothing.
C18_CallOrder ==
    /\ [](\A r \in Slots : reqs[r].pc # "idle" => CallOrder(r))
    /\ [][AnswersOnce]_vars

\* A request that made all three calls: probe, quote and search
C18_Witness ==
    \E r \in Slots :
        /\ Done(r) /\ QuoteGet(r)
        /\ Len(reqs[r].calls) = 3
        /\ CallRank(r, 1) = 1 /\ CallRank(r, 2) = 2 /\ CallRank(r, 3) = 3
        /\ reqs[r].calls[3].out = Rejected("fetch failed")

-----------------------------------------------------------------------------
(* C19                                                                     *)

\* A search answer with one quote
OneQuote == HttpResponse(200, Some(SearchJson(<<QuoteJson(SymAMI)>>)))

\* A search answer with six quotes, four of which carry a string symbol:
\* A.MI, (a number), a, (null), A, BIT:A
SixQuotes ==
    HttpResponse(200, Some(SearchJson(<<QuoteJson(SymAMI), JObj("symbol" :> JNum(100)),
                                        QuoteJson(SymLowerA), JNull, QuoteJson(SymA),
                                        QuoteJson(SymBitA)>>)))

\* C19: the search is queried with the symbol of the request as it stands in
\* the path, also for a BIT:-prefixed symbol whose probe yielded nothing; and
\* the message lists the first three string-valued symbols of the answer, in
\* the provider's order, joined by single spaces after
\* "Symbol not found - similar: ".
C19_Suggestions ==
    \A r \in Slots :
        QuoteGet(r) =>
            \A n \in SearchCalls(r) :
                /\ reqs[r].calls[n].arg = SubSeq(reqs[r].url.pathname, 13, Len(reqs[r].url.pathname))
                /\ (Done(r) /\ reqs[r].calls[n].out = OneQuote) =>
                      /\ Response(r).status = 200
                      /\ Response(r).body = "Symbol not found - similar: A.MI"
                /\ (Done(r) /\ reqs[r].calls[n].out = SixQuotes) =>
                      /\ Response(r).status = 200
                      /\ Response(r).body = "Symbol not found - similar: A.MI a A"

\* BIT:A, whose probe found nothing, is searched as BIT:A and answered the
\* first three of four string symbols
C19_Witness ==
    \E r \in Slots :
        /\ Done(r) /\ QuoteGet(r)
        /\ Symbol(r) = SymBitA
        /\ Len(reqs[r].calls) = 3
        /\ reqs[r].calls[1].arg = SymAMI
        /\ reqs[r].calls[3].fn = "search"
        /\ reqs[r].calls[3].arg = SymBitA
        /\ reqs[r].calls[3].out = SixQuotes
        /\ Response(r).body = "Symbol not found - similar: A.MI a A"

-----------------------------------------------------------------------------
(* C20                                                                     *)

\* The request has left its first step towards the cache lookup
PastRewrite(r) == QuoteGet(r) /\ reqs[r].pc # "start"

\* Resolution goes on with the symbol as requested: every upstream call names
\* it, and the cache is looked up under its path
UnchangedSymbol(r) ==
    /\ \A n \in 1..Len(reqs[r].calls) : reqs[r].calls[n].arg = Symbol(r)
    /\ reqs[r].pc = "lookup" => reqs[r].response = None
    /\ reqs[r].pc # "lookup" =>
          reqs[r].lookups = <<reqs[r].url.origin \o QuotesPrefix \o Symbol(r)>>

\* C20: the rewrite probe is issued only for a symbol PREFIX:BASE whose prefix
\* is BIT in any case and whose base is not empty; for a symbol without ":",
\* with another prefix or with an empty base no probe call is made and
\* resolution proceeds with the unchanged symbol.
C20_ProbeOnlyForBit ==
    \A r \in Slots :
        PastRewrite(r) =>
            /\ ProbeCalls(r) # {} => BitForm(Symbol(r))
            /\ ~BitForm(Symbol(r)) => UnchangedSymbol(r)

\* NYSE:A is looked up and quoted as NYSE:A, without a probe
C20_Witness ==
    \E r \in Slots :
        /\ Done(r) /\ QuoteGet(r)
        /\ Symbol(r) = SymNyseA
        /\ ProbeCalls(r) = {}
        /\ Len(reqs[r].calls) = 1
        /\ reqs[r].calls[1].arg = SymNyseA
        /\ reqs[r].lookups = <<Origin \o QuotePath(SymNyseA)>>

-----------------------------------------------------------------------------
(* C21                                                                     *)

\* C21: a response carries a Cache-Control header exactly when it is a price
\* response (built on a miss, or delivered from the cache): the 200 "Symbol
\* not found - similar" message, the 404 and 500 responses and the redirects
\* carry none.
C21_CacheControlOnPrices ==
    \A r \in Slots :
        Done(r) =>
            IF PricedMiss(r) \/ (QuoteGet(r) /\ Hit(r))
            THEN /\ Response(r).status = 200
                 /\ "Cache-Control" \in DOMAIN Response(r).headers
            ELSE /\ "Cache-Control" \notin DOMAIN Response(r).headers
                 /\ \/ Response(r).status \in {301, 404, 500}
                    \/ Response(r).status = 200 /\ Response(r).body \in SimilarBodies

\* The "similar" message is answered 200 without a Cache-Control header
C21_Witness ==
    \E r \in Slots :
        /\ Done(r) /\ QuoteGet(r)
        /\ Response(r).status = 200
        /\ Response(r).body = "Symbol not found - similar: A.MI a A"
        /\ DOMAIN Response(r).headers = {"Content-Type"}

-----------------------------------------------------------------------------
(* C22                                                                     *)

\* The first step of a request for a BIT:BASE symbol is its probe: one call,
\* no cache lookup, no write handed over, and cache and outstanding writes
\* left as they were; a probe that reports a price ends the request with 301
ProbeStep ==
    \A r \in Slots :
        (QuoteGet(r) /\ reqs[r].pc = "start" /\ BitForm(Symbol(r)) /\ reqs'[r] # reqs[r]) =>
            /\ Len(reqs'[r].calls) = 1
            /\ reqs'[r].calls[1].arg = BaseOf(Symbol(r)) \o <<".","M","I">>
            /\ reqs'[r].lookups = <<>>
            /\ reqs'[r].puts = <<>>
            /\ cache' = cache
            /\ pending' = pending
            /\ ReportsPrice(reqs'[r].calls[1].out) =>
                  (reqs'[r].pc = "done" /\ reqs'[r].response[1].status = 301)

\* A request answered by the rewrite redirect has neither read the cache nor
\* handed over a write, and a request for BIT:BASE that reads the cache has
\* probed before
ProbeBeforeLookup(r) ==
    /\ (Done(r) /\ Response(r).status = 301) =>
          (reqs[r].lookups = <<>> /\ reqs[r].hit = None /\ reqs[r].puts = <<>>)
    /\ (BitForm(Symbol(r)) /\ reqs[r].lookups # <<>>) => 1 \in ProbeCalls(r)

-----------------------------------------------------------------------------
(* C23                                                                     *)

\* The request in slot r follows an exchange-rewrite redirect
FollowsRewrite(r) ==
    /\ r > 1
    /\ reqs[r].pc # "idle"
    /\ QuoteGet(r - 1)

-----------------------------------------------------------------------------
(* C24                                                                     *)

\* A lookup under a key the cache does not hold misses, whatever writes for
\* that key are still outstanding
MissStep ==
    \A r \in Slots :
        LET key == reqs[r].url.origin \o reqs[r].url.pathname
        IN  (reqs[r].pc = "lookup" /\ reqs'[r].pc # "lookup" /\ key \notin DOMAIN cache) =>
                /\ reqs'[r].pc = "quote"
                /\ reqs'[r].hit = None

\* The price responses written by the requests for the path of r
WrittenFor(r) ==
    {Response(s) : s \in {x \in Slots : PricedMiss(x) /\ reqs[x].url = reqs[r].url}}

\* Two requests for one symbol that both missed: each is answered the price
\* the provider reported to it and hands over one write, and the entry under
\* their key, when there is one, is the response one of them wrote
OverlapOutcome(r, s) ==
    (r # s /\ reqs[r].url = reqs[s].url /\ PricedMiss(r) /\ PricedMiss(s)) =>
        /\ FirstGetAnswersPrice(r) /\ FirstGetAnswersPrice(s)
        /\ Len(reqs[r].puts) = 1 /\ Len(reqs[s].puts) = 1
        /\ \A k \in DOMAIN cache :
              k = reqs[r].url.origin \o reqs[r].url.pathname => cache[k].resp \in WrittenFor(r)

\* C24: when a request looks the cache up before the detached write of an
\* overlapping request for the same symbol has completed, it misses too; both
\* call upstream and write, each is answered 200 with the price the provider
\* reported to it, and once the writes have completed the entry under the key
\* is one of the written responses.
C24_OverlappingMisses ==
    /\ [](\A r, s \in Slots : OverlapOutcome(r, s))
    /\ [][MissStep]_vars

\* Two overlapping requests for A answered 150.25 and 42; both writes have
\* completed and the entry is the 42
C24_Witness ==
    /\ PricedMiss(1) /\ PricedMiss(2)
    /\ Symbol(1) = SymA /\ Symbol(2) = SymA
    /\ Response(1).body = "150.25"
    /\ Response(2).body = "42"
    /\ pending = {}
    /\ (Origin \o QuotePath(SymA)) \in DOMAIN cache
    /\ cache[Origin \o QuotePath(SymA)].resp = Response(2)

-----------------------------------------------------------------------------
(* C25                                                                     *)

\* Whatever becomes of its detached write, a request that handed one over
\* keeps the response it answered
WriterKeepsResponse ==
    \A r \in Slots :
        (Done(r) /\ reqs[r].puts # <<>>) => reqs'[r] = reqs[r]

\* A write that settles without changing the cache changes nothing else
FailureStep ==
    (pending' # pending /\ pending' \subseteq pending /\ cache' = cache) => reqs' = reqs

\* The request of slot r repeats one that was answered a price on a miss
RepeatsPriced(r) ==
    /\ r > 1
    /\ reqs[r].pc # "idle"
    /\ PricedMiss(r - 1)

\* The repeated request finds the entry when the write landed; when the write
\* failed there is no entry under the key, and it misses and calls upstream
\* again (a request for BIT:BASE whose probe now reports a price is redirected
\* before it reaches the cache)
AfterTheWrite(r) ==
    LET key == reqs[r].url.origin \o reqs[r].url.pathname
    IN  /\ Response(r - 1).status = 200
        /\ reqs[r].pc \in {"start", "lookup"} =>
              /\ pending = {}
              /\ key \in DOMAIN cache => cache[key] = reqs[r - 1].puts[1].entry
        /\ reqs[r].pc \in {"quote", "search", "done"} =>
              IF Hit(r)
              THEN Response(r) = Response(r - 1)
              ELSE IF reqs[r].lookups # <<>>
              THEN /\ Missed(r)
                   /\ reqs[r].pc # "quote" => OwnQuoteCalls(r) # {}
              ELSE /\ BitForm(Symbol(r))
                   /\ ProbeCalls(r) # {}
                   /\ Response(r).status = 301

\* The same, with every repeated request taken to reach the cache lookup
AfterTheWriteAsClaimed(r) ==
    LET key == reqs[r].url.origin \o reqs[r].url.pathname
    IN  /\ Response(r - 1).status = 200
        /\ reqs[r].pc \in {"start", "lookup"} =>
              /\ pending = {}
              /\ key \in DOMAIN cache => cache[key] = reqs[r - 1].puts[1].entry
        /\ reqs[r].pc \in {"quote", "search", "done"} =>
              IF Hit(r)
              THEN Response(r) = Response(r - 1)
              ELSE /\ Missed(r)
                   /\ reqs[r].pc # "quote" => OwnQuoteCalls(r) # {}

====
